---- MODULE Spec2Model ----
(***************************************************************************)
(* Consultation audit engine: the two review endpoints of server.js, the   *)
(* PII scan of piiValidator.js, and the batch scheduler and persistence    *)
(* hook of auditService.js (AuditService.conductRapidReview,               *)
(* conductFullReview, saveAssessmentsToDatabase).                          *)
(*                                                                         *)
(* One behaviour follows one POST request from arrival to response and on  *)
(* until every assessment pipeline it started has settled.  A step is one  *)
(* run-to-completion turn of the JavaScript event loop: the synchronous    *)
(* prefix of the request handler, or the settlement of one pending         *)
(* promise together with every continuation that settlement releases.      *)
(***************************************************************************)
EXTENDS Integers, Sequences, FiniteSets, TLC

(* ---------------------------- bounds ---------------------------------- *)
\* largest number of records a submitted text parses to
MaxRecords == 21
\* largest number of assessment pipelines the judgment capability fails
MaxFailures == 1
\* largest number of distinct PII pattern classes / names in one text
MaxMarks == 2
\* largest number of records in a text that carries any PII mark
MaxMarkedRecords == 10

(* ----------------------- program constants ---------------------------- *)
MinFullReview == 10
RapidReviewCount == 2
DefaultBatchSize == 10
MaxConsultations == 20

VARIABLES
    batchSize,              \* AuditService.batchSize
    pc,                     \* where the request handler is suspended
    endpoint,               \* "rapid" | "full" | "none"
    consultationData,       \* req.body.consultationData
    piiIssues,              \* result of validateForPII in the handler
    reviewData,             \* the text conduct*Review was called with
    consultations,          \* parseConsultations(reviewData): record ids
    batchStart,             \* loop variable of conductFullReview
    batchPromises,          \* the promises of the batch being awaited
    individualAssessments,  \* results assembled so far
    dispatched,             \* records whose judgment calls were issued
    fulfilled,              \* records whose pipeline resolved
    rejected,               \* records whose pipeline rejected
    dbInsert,               \* state of collection.insertMany
    store,                  \* documents in the assessment store
    response,               \* what res.status(..).json(..) sent
    unit,                   \* one call of a pure function: input and result
    recordText,             \* consultationText of one assessConsultation call
    criteriaAssessments,    \* its per-criterion results, by criterion id
    judgmentCalls           \* criteria whose judgment call was issued

serverVars == <<batchSize, pc, endpoint, consultationData, piiIssues,
                reviewData, consultations, batchStart, batchPromises,
                individualAssessments, dispatched, fulfilled, rejected,
                dbInsert, store, response>>

recordVars == <<recordText, criteriaAssessments, judgmentCalls>>

vars == <<serverVars, unit, recordVars>>

reviewVars == <<reviewData, consultations, batchStart, batchPromises,
                individualAssessments, dispatched, fulfilled, rejected,
                dbInsert, store>>

Min(a, b) == IF a < b THEN a ELSE b

(* ------------------------------ texts --------------------------------- *)
(* A submitted text is described by the number of records                 *)
(* parseConsultations finds in it and by what it contains that the PII    *)
(* scan looks for.  UNPATTERNED_NAME is a person name written so that no   *)
(* namePattern of validateForPII keeps it (for instance all lower case).   *)
HighPatterns == {"NHS_NUMBER", "PATIENT_NAME", "DATE_OF_BIRTH"}
MediumPatterns == {"POSTCODE", "PHONE_NUMBER", "EMAIL"}
NameMarks == {"PATIENT_NAME", "UNPATTERNED_NAME"}
Marks == HighPatterns \cup MediumPatterns \cup {"UNPATTERNED_NAME"}

MarkSets == {m \in SUBSET Marks : Cardinality(m) <= MaxMarks}

NoData == [empty |-> TRUE, records |-> 0, marks |-> {}]

Texts == [empty : {FALSE}, records : 0..MaxRecords, marks : MarkSets]

\* the request bodies submitted to the endpoints
Requests ==
    {t \in Texts : t.marks = {} \/ t.records <= MaxMarkedRecords} \cup {NoData}

(* --------------------------- piiValidator ----------------------------- *)
IssueOrder ==
    <<"NHS_NUMBER", "PATIENT_NAME", "DATE_OF_BIRTH",
      "POSTCODE", "PHONE_NUMBER", "EMAIL">>

Severity(type) == IF type \in HighPatterns THEN "HIGH" ELSE "MEDIUM"

RECURSIVE IssuesFrom(_, _)
IssuesFrom(k, marks) ==
    IF k > Len(IssueOrder) THEN <<>>
    ELSE (IF IssueOrder[k] \in marks
          THEN <<[type |-> IssueOrder[k], severity |-> Severity(IssueOrder[k])]>>
          ELSE <<>>) \o IssuesFrom(k + 1, marks)

validateForPII(text) == IssuesFrom(1, text.marks)

\* variant: `every` in place of `some`
hasOnlyHighSeverityIssues(issues) ==
    \A k \in 1..Len(issues) : issues[k].severity = "HIGH"

hasHighSeverityIssues(issues) ==
    \E k \in 1..Len(issues) : issues[k].severity = "HIGH"

\* the text validateAndAnonymize returns: every person name replaced
anonymizedText(text) == [text EXCEPT !.marks = @ \ NameMarks]

(* ---------------------------- responses ------------------------------- *)
NoBody == [reviewType |-> "none", totalConsultations |-> 0,
           individualAssessments |-> <<>>]

NoResponse == [status |-> 0, kind |-> "none", piiIssues |-> <<>>,
               body |-> NoBody]

ErrorResponse(status, kind, issues) ==
    [status |-> status, kind |-> kind, piiIssues |-> issues, body |-> NoBody]

ReportResponse(type, cons, assessments) ==
    [status |-> 200, kind |-> "report", piiIssues |-> <<>>,
     body |-> [reviewType |-> type, totalConsultations |-> Len(cons),
               individualAssessments |-> assessments]]

(* --------------------------- auditService ----------------------------- *)
\* parseConsultations: the records of the text, in input order
parseConsultations(text) == [i \in 1..text.records |-> i]

\* variant: `< 2` in place of `!== 2`
RapidReviewAtLeast(n) == n >= RapidReviewCount

RapidReviewValid(n) == n = RapidReviewCount

\* variant: `<= 0` in place of `< 10`
FullReviewNonEmpty(n) == n > 0

FullReviewValid(n) == n >= MinFullReview

\* variant: the number restarts in every batch (batchStart left out)
ConsultationNumberInBatch(start, i) == i + 1

\* const consultationNumber = batchStart + i + 1 (i is the 0-based position)
ConsultationNumber(start, i) == start + i + 1

\* variant: the batch runs to the last record
BatchToEnd(start, size, length) == length

\* const batchEnd = Math.min(batchStart + batchSize, consultations.length)
BatchEnd(start, size, length) == Min(start + size, length)

\* batch.map(...): one pending pipeline per record of the batch
BatchPromises(cons, start, size, text) ==
    LET batchEnd == BatchEnd(start, size, Len(cons))
        batch == SubSeq(cons, start + 1, batchEnd)
    IN [i \in 1..Len(batch) |->
          [consultationNumber |-> ConsultationNumber(start, i - 1),
           record |-> batch[i],
           text |-> text.marks,
           state |-> "pending"]]

RecordsOf(promises) == {promises[i].record : i \in 1..Len(promises)}

\* variant: Promise.any in place of Promise.all
BatchAnyFulfilled(promises) ==
    \E i \in 1..Len(promises) : promises[i].state = "fulfilled"

\* Promise.all resolves when every promise of the batch has resolved
BatchComplete(promises) ==
    \A i \in 1..Len(promises) : promises[i].state = "fulfilled"

\* variant: Promise.allSettled in place of Promise.all: never rejects
BatchNeverRejected(promises) == FALSE

\* Promise.all rejects as soon as one promise of the batch rejects
BatchRejected(promises) ==
    \E i \in 1..Len(promises) : promises[i].state = "rejected"

\* the array Promise.all resolves to: one entry per position of the batch
BatchResults(promises) ==
    [i \in 1..Len(promises) |->
        [consultationNumber |-> promises[i].consultationNumber,
         record |-> promises[i].record]]

\* variant: the save is started without `await`
SaveNotAwaited == FALSE

\* `await this.saveAssessmentsToDatabase(...)`: the review waits for the save
SaveIsAwaited == TRUE

\* variant: the catch block rethrows the error
SaveDoesRethrow == TRUE

\* the catch block of saveAssessmentsToDatabase does not rethrow
SaveRethrows == FALSE

DocumentsToInsert(assessments) ==
    [i \in 1..Len(assessments) |->
        [type |-> "gp_consultation_assessment",
         consultationNumber |-> assessments[i].consultationNumber,
         record |-> assessments[i].record]]

ReviewType == [rapid |-> "Rapid Review", full |-> "Full Review"]

\* no pure-function call is being followed
NoUnit == [fn |-> "none"]

\* no single-record assessment is being followed
RecordIdle ==
    /\ recordText = <<>>
    /\ criteriaAssessments = <<>>
    /\ judgmentCalls = {}

Init ==
    /\ unit = NoUnit
    /\ RecordIdle
    /\ batchSize \in 1..DefaultBatchSize
    /\ pc = "listening"
    /\ endpoint = "none"
    /\ consultationData = NoData
    /\ piiIssues = <<>>
    /\ reviewData = NoData
    /\ consultations = <<>>
    /\ batchStart = 0
    /\ batchPromises = <<>>
    /\ individualAssessments = <<>>
    /\ dispatched = {}
    /\ fulfilled = {}
    /\ rejected = {}
    /\ dbInsert = "none"
    /\ store = <<>>
    /\ response = NoResponse

\* the review throws before any work: the handler's catch answers 500
ValidationFailure(data) ==
    /\ reviewData' = data
    /\ consultations' = parseConsultations(data)
    /\ response' = ErrorResponse(500, "validation_error", <<>>)
    /\ pc' = "responded"
    /\ UNCHANGED <<batchStart, batchPromises, individualAssessments,
                   dispatched, fulfilled, rejected, dbInsert, store>>

\* the review maps its first batch to pipelines and awaits Promise.all
StartBatches(data, size) ==
    LET cons == parseConsultations(data)
        promises == BatchPromises(cons, 0, size, data)
    IN /\ reviewData' = data
       /\ consultations' = cons
       /\ batchStart' = 0
       /\ batchPromises' = promises
       /\ dispatched' = RecordsOf(promises)
       /\ pc' = "assessing"
       /\ UNCHANGED <<individualAssessments, fulfilled, rejected, dbInsert,
                      store, response>>

conductRapidReview(data) ==
    IF ~RapidReviewValid(Len(parseConsultations(data)))
    THEN ValidationFailure(data)
    ELSE StartBatches(data, Len(parseConsultations(data)))

conductFullReview(data) ==
    IF ~FullReviewValid(Len(parseConsultations(data)))
    THEN ValidationFailure(data)
    ELSE StartBatches(data, batchSize)

\* the synchronous prefix shared by both POST handlers
HandlePost(ep, data) ==
    /\ pc = "listening"
    /\ UNCHANGED <<unit, recordVars>>
    /\ endpoint' = ep
    /\ consultationData' = data
    /\ UNCHANGED batchSize
    /\ IF data.empty
       THEN /\ response' = ErrorResponse(400, "data_required", <<>>)
            /\ pc' = "responded"
            /\ UNCHANGED <<piiIssues, reviewVars>>
       ELSE /\ piiIssues' = validateForPII(data)
            /\ IF hasHighSeverityIssues(validateForPII(data))
               THEN /\ response' = ErrorResponse(400, "pii_detected",
                                                 validateForPII(data))
                    /\ pc' = "responded"
                    /\ UNCHANGED reviewVars
               ELSE IF ep = "rapid"
                    THEN conductRapidReview(data)
                    ELSE conductFullReview(data)

PostRapidReview == \E data \in Requests : HandlePost("rapid", data)

PostFullReview == \E data \in Requests : HandlePost("full", data)

\* a pipeline resolves; if that completes the awaited batch the review
\* resumes: it appends the batch, then dispatches the next batch or saves
PipelineFulfilled ==
    \E p \in 1..Len(batchPromises) :
      /\ batchPromises[p].state = "pending"
      /\ UNCHANGED <<unit, recordVars>>
      /\ fulfilled' = fulfilled \cup {batchPromises[p].record}
      /\ UNCHANGED <<batchSize, endpoint, consultationData, piiIssues,
                     reviewData, consultations, rejected, store>>
      /\ LET settled == [batchPromises EXCEPT ![p].state = "fulfilled"]
             assessments == individualAssessments \o BatchResults(settled)
             nextStart == batchStart + batchSize
         IN IF pc = "assessing" /\ BatchComplete(settled)
            THEN /\ individualAssessments' = assessments
                 /\ IF endpoint = "full" /\ nextStart < Len(consultations)
                    THEN /\ batchStart' = nextStart
                         /\ batchPromises' =
                              BatchPromises(consultations, nextStart,
                                            batchSize, reviewData)
                         /\ dispatched' = dispatched \cup
                              RecordsOf(BatchPromises(consultations, nextStart,
                                                      batchSize, reviewData))
                         /\ UNCHANGED <<pc, dbInsert, response>>
                    ELSE /\ batchPromises' = settled
                         /\ dbInsert' = "pending"
                         /\ UNCHANGED <<batchStart, dispatched>>
                         /\ IF SaveIsAwaited
                            THEN pc' = "saving" /\ UNCHANGED response
                            ELSE /\ pc' = "responded"
                                 /\ response' =
                                      ReportResponse(ReviewType[endpoint],
                                                     consultations, assessments)
            ELSE /\ batchPromises' = settled
                 /\ UNCHANGED <<pc, batchStart, individualAssessments,
                                dispatched, dbInsert, response>>

\* a criterion judgment call of a pipeline fails: the pipeline rejects,
\* Promise.all rejects, the review throws and the handler answers 500
PipelineRejected ==
    \E p \in 1..Len(batchPromises) :
      /\ batchPromises[p].state = "pending"
      /\ Cardinality(rejected) < MaxFailures
      /\ UNCHANGED <<unit, recordVars>>
      /\ rejected' = rejected \cup {batchPromises[p].record}
      /\ batchPromises' = [batchPromises EXCEPT ![p].state = "rejected"]
      /\ UNCHANGED <<batchSize, endpoint, consultationData, piiIssues,
                     reviewData, consultations, batchStart,
                     individualAssessments, dispatched, fulfilled, dbInsert,
                     store>>
      /\ IF pc = "assessing" /\ BatchRejected(batchPromises')
         THEN /\ response' = ErrorResponse(500, "judgment_failed", <<>>)
              /\ pc' = "responded"
         ELSE UNCHANGED <<pc, response>>

\* insertMany resolves: the documents are stored and the report returned
InsertResolved ==
    /\ dbInsert = "pending"
    /\ UNCHANGED <<unit, recordVars>>
    /\ dbInsert' = "resolved"
    /\ store' = store \o DocumentsToInsert(individualAssessments)
    /\ IF pc = "saving"
       THEN /\ pc' = "responded"
            /\ response' = ReportResponse(ReviewType[endpoint], consultations,
                                          individualAssessments)
       ELSE UNCHANGED <<pc, response>>
    /\ UNCHANGED <<batchSize, endpoint, consultationData, piiIssues,
                   reviewData, consultations, batchStart, batchPromises,
                   individualAssessments, dispatched, fulfilled, rejected>>

\* insertMany rejects: the error is logged and swallowed by the catch block
InsertRejected ==
    /\ dbInsert = "pending"
    /\ UNCHANGED <<unit, recordVars>>
    /\ dbInsert' = "rejected"
    /\ IF pc = "saving"
       THEN /\ pc' = "responded"
            /\ response' =
                 IF SaveRethrows
                 THEN ErrorResponse(500, "save_failed", <<>>)
                 ELSE ReportResponse(ReviewType[endpoint], consultations,
                                     individualAssessments)
       ELSE UNCHANGED <<pc, response>>
    /\ UNCHANGED <<batchSize, endpoint, consultationData, piiIssues,
                   reviewData, consultations, batchStart, batchPromises,
                   individualAssessments, dispatched, fulfilled, rejected,
                   store>>

Next ==
    \/ PostRapidReview
    \/ PostFullReview
    \/ PipelineFulfilled
    \/ PipelineRejected
    \/ InsertResolved
    \/ InsertRejected

Spec == Init /\ [][Next]_vars

TypeOK ==
    /\ batchSize \in 1..DefaultBatchSize
    /\ pc \in {"listening", "assessing", "saving", "responded"}
    /\ endpoint \in {"none", "rapid", "full"}
    /\ dbInsert \in {"none", "pending", "resolved", "rejected"}
    /\ dispatched \subseteq 1..MaxRecords
    /\ fulfilled \subseteq dispatched
    /\ rejected \subseteq dispatched

(* ----------------------------- properties ----------------------------- *)
\* the batch a record falls in under the configured batch size
BatchOf(r) == (r - 1) \div batchSize

\* the assessment of the i-th parsed record, numbered i
AssessmentOf(i) == [consultationNumber |-> i, record |-> consultations[i]]

\* conduct*Review has been entered with the submitted text
ReviewEntered == ~reviewData.empty

\* C1: in a full review the assembled list holds, at index i, the assessment
\* of the i-th parsed record with consultationNumber i, at every moment and
\* for every completion order; a returned report lists all K records.
C1_OrderPreserved ==
    endpoint = "full" =>
      /\ \A i \in 1..Len(individualAssessments) :
            individualAssessments[i] = AssessmentOf(i)
      /\ response.status = 200 =>
            /\ Len(response.body.individualAssessments) = Len(consultations)
            /\ \A i \in 1..Len(consultations) :
                  response.body.individualAssessments[i] = AssessmentOf(i)

\* a full review of at least two full batches has returned its report
C1_Witness ==
    /\ endpoint = "full"
    /\ response.status = 200
    /\ batchSize > 1
    /\ Len(consultations) >= 2 * batchSize
    /\ Len(response.body.individualAssessments) = Len(consultations)

\* C2: in a full review a record is dispatched only when every record of
\* every earlier batch has completed its pipeline.
C2_BatchBarrier ==
    endpoint = "full" =>
      \A r \in dispatched : \A q \in 1..Len(consultations) :
          BatchOf(q) < BatchOf(r) => q \in fulfilled

\* a second batch is in flight behind a completed first batch
C2_Witness ==
    /\ endpoint = "full"
    /\ batchStart > 0
    /\ batchSize > 1
    /\ \E p \in 1..Len(batchPromises) : batchPromises[p].state = "pending"
    /\ \E p \in 1..Len(batchPromises) : batchPromises[p].state = "fulfilled"

\* C3: a full review of fewer than 10 parsed records ends in a validation
\* error with no judgment call issued and no insert attempted.
C3_FullReviewFailsFast ==
    (endpoint = "full" /\ ReviewEntered /\ Len(consultations) < 10) =>
      /\ response.kind = "validation_error"
      /\ dispatched = {}
      /\ batchPromises = <<>>
      /\ dbInsert = "none"
      /\ store = <<>>

\* a full review of 9 records was refused
C3_Witness ==
    /\ endpoint = "full"
    /\ ReviewEntered
    /\ Len(consultations) = 9
    /\ response.kind = "validation_error"

\* C4: a rapid review of any number of records other than 2 ends in a
\* validation error with no judgment call and no insert; with 2 records both
\* are dispatched in the same step as one batch.
C4_RapidReviewExactlyTwo ==
    (endpoint = "rapid" /\ ReviewEntered) =>
      IF Len(consultations) # 2
      THEN /\ response.kind = "validation_error"
           /\ dispatched = {}
           /\ batchPromises = <<>>
           /\ dbInsert = "none"
           /\ store = <<>>
      ELSE /\ dispatched = {1, 2}
           /\ Len(batchPromises) = 2
           /\ batchStart = 0
           /\ response.kind # "validation_error"

\* a rapid review of 3 records was refused
C4_Witness ==
    /\ endpoint = "rapid"
    /\ ReviewEntered
    /\ Len(consultations) = 3
    /\ response.kind = "validation_error"

\* C5: a full review dispatches at most 20 records to judgment and reports
\* no more than 20 as reviewed.
C5_RecordCeiling ==
    endpoint = "full" =>
      /\ Cardinality(dispatched) <= MaxConsultations
      /\ response.body.totalConsultations <= MaxConsultations

\* C6: on both endpoints a scan with a HIGH issue rejects the request with
\* the full issue list and no judgment call; a scan with MEDIUM issues only,
\* or none, lets the request into the review.
C6_PIIGate ==
    (endpoint # "none" /\ ~consultationData.empty) =>
      IF consultationData.marks \cap HighPatterns # {}
      THEN /\ response.status = 400
           /\ response.kind = "pii_detected"
           /\ {response.piiIssues[k].type : k \in 1..Len(response.piiIssues)}
                = consultationData.marks \cap (HighPatterns \cup MediumPatterns)
           /\ dispatched = {}
           /\ ~ReviewEntered
      ELSE /\ response.kind # "pii_detected"
           /\ reviewData = consultationData

\* a text with one HIGH and one MEDIUM issue was rejected with both listed
C6_Witness ==
    /\ response.kind = "pii_detected"
    /\ Len(response.piiIssues) = 2
    /\ \E k \in 1..2 : response.piiIssues[k].severity = "MEDIUM"

\* C7: the text handed to every judgment call is the anonymized text, with
\* every person name of the submitted text replaced.
C7_JudgedTextAnonymized ==
    \A p \in 1..Len(batchPromises) :
        batchPromises[p].text = anonymizedText(consultationData).marks

\* C8: when every judgment succeeded, the review answers with the same
\* complete report whether the insert resolved or rejected.
C8_SaveFailureKeepsReport ==
    dbInsert \in {"resolved", "rejected"} =>
      /\ response.status = 200
      /\ response.body.reviewType = ReviewType[endpoint]
      /\ response.body.totalConsultations = Len(consultations)
      /\ response.body.individualAssessments =
            [i \in 1..Len(consultations) |-> AssessmentOf(i)]

\* the insert was rejected, nothing was stored, and the report was returned
C8_Witness ==
    /\ dbInsert = "rejected"
    /\ store = <<>>
    /\ response.status = 200
    /\ endpoint = "full"

\* C9: once a pipeline has rejected, the review has failed: the answer is
\* an error, no insert is attempted, nothing is stored, and no record of a
\* batch after the failing one is ever dispatched.
C9_JudgmentFailureAborts ==
    rejected # {} =>
      /\ response.status = 500
      /\ response.kind = "judgment_failed"
      /\ dbInsert = "none"
      /\ store = <<>>
      /\ endpoint = "full" =>
            \A f \in rejected : \A r \in dispatched : BatchOf(r) <= BatchOf(f)

\* a judgment failed in a later batch, after an earlier batch had completed
C9_Witness ==
    /\ endpoint = "full"
    /\ rejected # {}
    /\ Len(individualAssessments) > 0
    /\ Len(individualAssessments) < Len(consultations)
    /\ store = <<>>
    /\ response.status = 500

\* C10 as stated: the report is returned without waiting for the insert, so
\* whenever the insert is in flight the report has already been sent.
C10_ReportBeforeInsertSettles ==
    dbInsert = "pending" => response.status = 200

\* C10 as amended: the report is returned only once the insert has settled;
\* the review awaits the save before it answers.
C10_ReportAfterInsertSettles ==
    response.status = 200 => dbInsert \in {"resolved", "rejected"}

\* a report was returned after the insert had resolved and stored documents
C10_Witness ==
    /\ response.status = 200
    /\ dbInsert = "resolved"
    /\ Len(store) = Len(consultations)

(* ------------------- assessmentService: extractRating ------------------ *)
\* the server as constructed, with no request in hand
ServerIdle ==
    /\ batchSize = DefaultBatchSize
    /\ pc = "listening"
    /\ endpoint = "none"
    /\ consultationData = NoData
    /\ piiIssues = <<>>
    /\ reviewData = NoData
    /\ consultations = <<>>
    /\ batchStart = 0
    /\ batchPromises = <<>>
    /\ individualAssessments = <<>>
    /\ dispatched = {}
    /\ fulfilled = {}
    /\ rejected = {}
    /\ dbInsert = "none"
    /\ store = <<>>
    /\ response = NoResponse

\* longest judgment response, in tokens
MaxResponseLen == 3

\* a response is a sequence of tokens: the marker in either case, white
\* space, the first character of whatever follows (tag letters in either
\* case, another letter, a bracket)
ResponseTokens ==
    {"RATING:", "rating:", " ", "A", "C", "U", "N", "a", "n", "B", "["}

Responses == UNION {[1..n -> ResponseTokens] : n \in 0..MaxResponseLen}

\* /RATING:/i
IsRatingMarker(tok) == tok \in {"RATING:", "rating:"}

\* \s
IsSpace(tok) == tok = " "

\* String.prototype.toUpperCase on one character
toUpperCase(tok) ==
    CASE tok = "a" -> "A"
      [] tok = "c" -> "C"
      [] tok = "u" -> "U"
      [] tok = "n" -> "N"
      [] OTHER -> tok

\* the character class of the previous revision of the pattern
TagLettersWithoutN == {"A", "C", "U"}

\* [ACUN]
TagLetters == {"A", "C", "U", "N"}

\* the position at which \s* stops after the marker at i
AfterSpaces(resp, i) ==
    CHOOSE j \in (i + 1)..(Len(resp) + 1) :
        /\ \A k \in (i + 1)..(j - 1) : IsSpace(resp[k])
        /\ j <= Len(resp) => ~IsSpace(resp[j])

\* the pattern /RATING:\s*([ACUN])/i matches starting at token i
RatingMatchesAt(resp, i) ==
    /\ IsRatingMarker(resp[i])
    /\ AfterSpaces(resp, i) <= Len(resp)
    /\ toUpperCase(resp[AfterSpaces(resp, i)]) \in TagLetters

extractRating(aiResponse) ==
    LET starts == {i \in 1..Len(aiResponse) : RatingMatchesAt(aiResponse, i)}
    IN  IF starts = {} THEN "concern"
        ELSE LET i == CHOOSE m \in starts : \A o \in starts : m <= o
                 rating == toUpperCase(aiResponse[AfterSpaces(aiResponse, i)])
             IN  CASE rating = "A" -> "acceptable"
                   [] rating = "C" -> "concern"
                   [] rating = "U" -> "unacceptable"
                   [] rating = "N" -> "not-relevant"
                   [] OTHER -> "concern"

InitRating ==
    /\ ServerIdle
    /\ RecordIdle
    /\ unit \in [fn : {"extractRating"}, aiResponse : Responses,
                 done : {FALSE}, rating : {"none"}]

\* one judgment response is parsed
ExtractRating ==
    /\ unit.fn = "extractRating"
    /\ ~unit.done
    /\ unit' = [unit EXCEPT !.done = TRUE,
                            !.rating = extractRating(unit.aiResponse)]
    /\ UNCHANGED <<serverVars, recordVars>>

NextRating == ExtractRating

SpecRating == InitRating /\ [][NextRating]_vars

Ratings == {"acceptable", "concern", "unacceptable", "not-relevant"}

\* the rating a tag letter stands for
RatingOfTag ==
    [t \in {"A", "C", "U", "N"} |->
        CASE t = "A" -> "acceptable"
          [] t = "C" -> "concern"
          [] t = "U" -> "unacceptable"
          [] t = "N" -> "not-relevant"]

\* the tags of a response: the letters A, C, U, N (either case) that stand
\* right after a marker, white space apart, in marker order
TagAfter(resp, i) ==
    LET rest == SubSeq(resp, i + 1, Len(resp))
        body == SelectSeq(rest, LAMBDA tok : tok # " ")
    IN  IF body # <<>>
           /\ body[1] \in {"A", "C", "U", "N", "a", "c", "u", "n"}
        THEN toUpperCase(body[1])
        ELSE "none"

\* C11: extractRating always yields one of the four ratings; the first
\* marker 'RATING:' that is followed by a tag letter decides it (A
\* Acceptable, C Concern, U Unacceptable, N NotRelevant); a response with
\* no such tag yields Concern.
C11_ExtractRatingTotal ==
    (unit.fn = "extractRating" /\ unit.done) =>
        LET resp == unit.aiResponse
            tagged == {i \in 1..Len(resp) :
                          /\ resp[i] \in {"RATING:", "rating:"}
                          /\ TagAfter(resp, i) # "none"}
        IN  /\ unit.rating \in Ratings
            /\ tagged = {} => unit.rating = "concern"
            /\ \A i \in tagged :
                   (\A o \in tagged : i <= o) =>
                       unit.rating = RatingOfTag[TagAfter(resp, i)]

\* a response tagged N after white space has been parsed to NotRelevant
C11_Witness ==
    /\ unit.fn = "extractRating"
    /\ unit.done
    /\ unit.aiResponse = <<"rating:", " ", "n">>
    /\ unit.rating = "not-relevant"

(* ---------------- assessmentService: relevance classifier -------------- *)
\* longest consultation text, in tokens
MaxTextLen == 4

\* ids of the criteria, in the order of assessmentCriteria
NumCriteria == 12

CriterionIds == 1..NumCriteria

\* a consultation text is a sequence of tokens: words and phrases of a note,
\* a number, white space, a colon
TextTokens ==
    {"Problem", "problem", ":", " ", "asthma", "AF", "2",
     "DNA", "Telephone", "prescribed", "blood test"}

ConsultationTexts == UNION {[1..n -> TextTokens] : n \in 0..MaxTextLen}

\* number of characters of a token
TokenLength(tok) ==
    CASE tok \in {"Problem", "problem"} -> 7
      [] tok \in {":", " ", "2"} -> 1
      [] tok = "asthma" -> 6
      [] tok = "AF" -> 2
      [] tok = "DNA" -> 3
      [] tok = "Telephone" -> 9
      [] tok = "prescribed" -> 10
      [] tok = "blood test" -> 10

\* a token that is left as written
keepCase(tok) == tok

\* String.prototype.toLowerCase on a token
toLowerCase(tok) ==
    CASE tok = "Problem" -> "problem"
      [] tok = "AF" -> "af"
      [] tok = "DNA" -> "dna"
      [] tok = "Telephone" -> "telephone"
      [] OTHER -> tok

testKeywords ==
    {"blood test", "blood result", "lab result", "laboratory", "x-ray",
     "xray", "scan", "mri", "ct scan", "ultrasound", "radiology",
     "pathology", "biopsy", "culture", "test result",
     "investigation result", "ecg", "ekg"}

telephoneKeywords ==
    {"telephone", "phone", "tel:", "telephon", "phone call",
     "spoke to patient", "called patient", "patient called",
     "telephone consultation", "phone consultation"}

dnaKeywords ==
    {"did not attend", "dna", "did not show", "failed to attend",
     "patient did not attend", "no show", "didn't attend",
     "failed encounter", "failed appointment", "missed appointment",
     "unable to contact", "no answer", "failed to answer"}

prescribingKeywords ==
    {"prescribed", "prescription", "rx:", "medication:", "drug:",
     "treatment:", "dispense", "supply", "mg", "ml", "tablets", "capsules",
     "dose", "dosage", "once daily", "twice daily", "bd", "tds", "qds",
     "prn"}

\* the keywords that occur in a lower-cased token; no keyword straddles two
\* tokens of TextTokens
KeywordsIn(str) ==
    CASE str = "dna" -> {"dna"}
      [] str = "telephone" -> {"telephone", "phone", "telephon"}
      [] str = "prescribed" -> {"prescribed"}
      [] str = "blood test" -> {"blood test"}
      [] OTHER -> {}

\* keywords.some(keyword => lowerText.includes(keyword))
SomeIncluded(consultationText, keywords) ==
    \E i \in 1..Len(consultationText) :
        KeywordsIn(toLowerCase(consultationText[i])) \cap keywords # {}

checkForTestResults(consultationText) ==
    SomeIncluded(consultationText, testKeywords)

isTelephoneConsultation(consultationText) ==
    SomeIncluded(consultationText, telephoneKeywords)

isDNAorFailedEncounter(consultationText) ==
    SomeIncluded(consultationText, dnaKeywords)

hasPrescribing(consultationText) ==
    SomeIncluded(consultationText, prescribingKeywords)

\* /Problem/i
IsProblemWord(tok) == toLowerCase(tok) = "problem"

\* [A-Za-z]: the token starts with a letter
StartsWithLetter(tok) == tok \notin {":", " ", "2"}

\* [A-Za-z0-9\s,.-]: every character of the token is in the class
InDiagnosisClass(tok) == tok # ":"

\* where \s+ stops when the pattern is tried at token i, past an optional
\* colon; 0 when there is no white space there
DiagnosisStart(text, i) ==
    LET s == IF i + 1 <= Len(text) /\ text[i + 1] = ":" THEN i + 2 ELSE i + 1
        j == CHOOSE e \in s..(Len(text) + 1) :
                 /\ \A k \in s..(e - 1) : IsSpace(text[k])
                 /\ e <= Len(text) => ~IsSpace(text[e])
    IN  IF j > s THEN j ELSE 0

\* the pattern /Problem:?\s+([A-Za-z][A-Za-z0-9\s,.-]+)/i matches at token i
ProblemMatchesAt(text, i) ==
    /\ IsProblemWord(text[i])
    /\ DiagnosisStart(text, i) \in 1..Len(text)
    /\ StartsWithLetter(text[DiagnosisStart(text, i)])

\* the last token of the greedy capture group that starts at token j
CaptureEnd(text, j) ==
    CHOOSE e \in j..Len(text) :
        /\ \A k \in j..e : InDiagnosisClass(text[k])
        /\ e < Len(text) => ~InDiagnosisClass(text[e + 1])

RECURSIVE CharCount(_, _, _)
CharCount(text, from, to) ==
    IF from > to THEN 0
    ELSE TokenLength(text[from]) + CharCount(text, from + 1, to)

\* match[1].trim().length, the group starting with a letter
TrimmedLength(text, j, e) ==
    LET last == CHOOSE l \in j..e :
                    /\ ~IsSpace(text[l])
                    /\ \A k \in (l + 1)..e : IsSpace(text[k])
    IN  CharCount(text, j, last)

\* a diagnosis of at least one character is enough
AnyDiagnosisLength(n) == n > 0

\* match[1].trim().length > 2
LongEnoughDiagnosis(n) == n > 2

checkForReadCode(consultationText) ==
    LET starts == {i \in 1..Len(consultationText) :
                      ProblemMatchesAt(consultationText, i)}
    IN  /\ starts # {}
        /\ LET i == CHOOSE m \in starts : \A o \in starts : m <= o
               j == DiagnosisStart(consultationText, i)
           IN  LongEnoughDiagnosis(
                   TrimmedLength(consultationText, j,
                                 CaptureEnd(consultationText, j)))

\* no criterion is assessed for a failed encounter
DnaExemptNone(id) == FALSE

\* criterion.id !== 11 does not hold: safety netting is still assessed
DnaExempt(id) == id = 11

\* the previous revision rated criterion 12 without test results acceptable
NoTestResultsAcceptable == "acceptable"

\* rating of criterion 12 when no test result is mentioned
NoTestResultsRating == "not-relevant"

\* a result returned without a judgment call
Forced(id, rating) == [criterionId |-> id, rating |-> rating, judged |-> FALSE]

\* the criterion goes to buildCriterionPrompt and the judgment call
Forwarded(id) == [criterionId |-> id, rating |-> "pending", judged |-> TRUE]

\* the part of assessSingleCriterion that runs before its await
assessSingleCriterion(consultationText, id) ==
    IF isDNAorFailedEncounter(consultationText) /\ ~DnaExempt(id)
        THEN Forced(id, "not-relevant")
    ELSE IF id = 2 /\ checkForReadCode(consultationText)
        THEN Forced(id, "acceptable")
    ELSE IF id = 5 /\ isTelephoneConsultation(consultationText)
        THEN Forced(id, "not-relevant")
    ELSE IF id \in {7, 8, 9} /\ ~hasPrescribing(consultationText)
        THEN Forced(id, "not-relevant")
    ELSE IF id = 12 /\ ~checkForTestResults(consultationText)
        THEN Forced(id, NoTestResultsRating)
    ELSE Forwarded(id)

InitRecord ==
    /\ ServerIdle
    /\ unit = NoUnit
    /\ recordText \in ConsultationTexts \ {<<>>}
    /\ criteriaAssessments = <<>>
    /\ judgmentCalls = {}

\* assessConsultation maps the criteria to assessSingleCriterion: each call
\* runs to its return or to its judgment request
AssessConsultation ==
    /\ recordText # <<>>
    /\ criteriaAssessments = <<>>
    /\ criteriaAssessments' =
           [id \in CriterionIds |-> assessSingleCriterion(recordText, id)]
    /\ judgmentCalls' =
           {id \in CriterionIds :
               assessSingleCriterion(recordText, id).judged}
    /\ UNCHANGED <<serverVars, unit, recordText>>

NextRecord == AssessConsultation

SpecRecord == InitRecord /\ [][NextRecord]_vars

\* the criteria of the record in hand have been classified
Classified == criteriaAssessments # <<>>

\* the text mentions the token somewhere
Mentions(tok) == \E i \in 1..Len(recordText) : recordText[i] = tok

\* C12: for a failed encounter every criterion except 11 is NotRelevant
\* without a judgment call; criterion 11 is the only one forwarded, so
\* exactly one judgment call is issued.
C12_FailedEncounter ==
    (Classified /\ Mentions("DNA")) =>
        /\ \A id \in CriterionIds \ {11} :
               /\ criteriaAssessments[id].rating = "not-relevant"
               /\ id \notin judgmentCalls
        /\ judgmentCalls = {11}
        /\ Cardinality(judgmentCalls) = 1

\* a failed encounter with a coded problem has been classified
C12_Witness ==
    /\ Classified
    /\ recordText = <<"Problem", " ", "asthma", "DNA">>
    /\ judgmentCalls = {11}

\* C13: for a telephone consultation criterion 5 is NotRelevant and no
\* judgment call is issued for it.
C13_TelephoneExamination ==
    (Classified /\ Mentions("Telephone")) =>
        /\ criteriaAssessments[5].rating = "not-relevant"
        /\ ~criteriaAssessments[5].judged
        /\ 5 \notin judgmentCalls

\* a telephone consultation that is not a failed encounter
C13_Witness ==
    /\ Classified
    /\ Mentions("Telephone")
    /\ ~Mentions("DNA")
    /\ criteriaAssessments[5].rating = "not-relevant"
    /\ 4 \in judgmentCalls

\* C14: unless the encounter failed, criteria 7, 8 and 9 are NotRelevant
\* without judgment exactly when nothing was prescribed, criterion 12 is
\* NotRelevant without judgment exactly when no test result is mentioned,
\* and they are forwarded to judgment otherwise.
C14_PrescribingAndResults ==
    (Classified /\ ~Mentions("DNA")) =>
        /\ \A id \in {7, 8, 9} :
               IF Mentions("prescribed")
               THEN id \in judgmentCalls
                    /\ criteriaAssessments[id].rating = "pending"
               ELSE id \notin judgmentCalls
                    /\ criteriaAssessments[id].rating = "not-relevant"
        /\ IF Mentions("blood test")
           THEN 12 \in judgmentCalls
                /\ criteriaAssessments[12].rating = "pending"
           ELSE 12 \notin judgmentCalls
                /\ criteriaAssessments[12].rating = "not-relevant"

\* a prescription without test results: 7, 8, 9 forwarded, 12 not
C14_Witness ==
    /\ Classified
    /\ Mentions("prescribed")
    /\ ~Mentions("blood test")
    /\ ~Mentions("DNA")
    /\ {7, 8, 9} \subseteq judgmentCalls
    /\ criteriaAssessments[12].rating = "not-relevant"

\* the text holds a 'Problem:' field with something other than white space
\* after the colon
HasProblemField ==
    \E i \in 1..(Len(recordText) - 1) :
        /\ recordText[i] \in {"Problem", "problem"}
        /\ recordText[i + 1] = ":"
        /\ \E k \in (i + 2)..Len(recordText) : recordText[k] # " "

WordTokens == TextTokens \ {":", " ", "2"}

\* the word 'Problem' at token i is followed, past an optional colon, by
\* white space and then by a word at token j
DiagnosisAfter(i, j) ==
    /\ recordText[i] \in {"Problem", "problem"}
    /\ j \in (i + 2)..Len(recordText)
    /\ recordText[j] \in WordTokens
    /\ recordText[j - 1] = " "
    /\ \A k \in (i + 1)..(j - 1) :
           recordText[k] = " " \/ (k = i + 1 /\ recordText[k] = ":")

\* the run of letters, digits and white space from token j on reaches more
\* than two characters at a token that is not white space
RunLongerThanTwo(j) ==
    \E e \in j..Len(recordText) :
        /\ \A k \in j..e : recordText[k] # ":"
        /\ recordText[e] # " "
        /\ CharCount(recordText, j, e) > 2

MaxExtraNotRelevant == 1

\* GREEN, YELLOW and AMBER start at these percentages
GreenFrom == 90

YellowFrom == 70

AmberFrom == 50

\* a percentage is the quotient num / den as a double; below says that the
\* double is the next one under the exact quotient
Percentage(num, den, below) == [num |-> num, den |-> den, below |-> below]

\* percentage > k
Above(percentage, k) == percentage.num > k * percentage.den

\* percentage >= k
AtLeast(percentage, k) ==
    \/ percentage.num > k * percentage.den
    \/ percentage.num = k * percentage.den /\ ~percentage.below

calculateRAGRating(percentage) ==
    IF AtLeast(percentage, GreenFrom) THEN "GREEN"
    ELSE IF AtLeast(percentage, YellowFrom) THEN "YELLOW"
    ELSE IF AtLeast(percentage, AmberFrom) THEN "AMBER"
    ELSE "RED"

\* credit of a concern rating, in hundredths of an acceptable one
ConcernCredit == 60

\* criteriaRatings.forEach: the entries that are the rating, in either form
RECURSIVE CountOf(_, _, _)
CountOf(criteriaRatings, short, long) ==
    IF criteriaRatings = <<>> THEN 0
    ELSE (IF Head(criteriaRatings) \in {short, long} THEN 1 ELSE 0)
         + CountOf(Tail(criteriaRatings), short, long)

\* every entry counts as relevant
TotalRelevantAll(length, notRelevantCount) == length

\* criteriaRatings.length - notRelevantCount
TotalRelevant(length, notRelevantCount) == length - notRelevantCount

\* the double (acceptableCount * 1 + concernCount * 0.6) / totalRelevant *
\* 100 is under the exact quotient at a band start: 9 * 0.6 is
\* 5.3999999999999995, 3 + that is 8.399999999999999, over 12 times 100 is
\* 69.99999999999999; for every other count up to 16 entries the double
\* that equals a band start exactly is computed exactly
FallsBelow(acceptableCount, concernCount, totalRelevant) ==
    acceptableCount = 3 /\ concernCount = 9 /\ totalRelevant = 12

\* a record with nothing relevant scores in full
NoRelevantFull == Percentage(100, 1, FALSE)

\* totalRelevant > 0 ? ... : 0
NoRelevantPercentage == Percentage(0, 1, FALSE)

\* the hundredths are cut off
Truncate2(percentage) == (percentage.num * 100) \div percentage.den

\* Math.round(percentage * 100) / 100, in hundredths; the double is within
\* 1e-13 of the quotient and no quotient of fewer than 32 entries lies on a
\* half
Round2(percentage) ==
    (2 * percentage.num * 100 + percentage.den) \div (2 * percentage.den)

\* score is in hundredths, percentage in hundredths of a per cent
calculateScore(criteriaRatings) ==
    LET acceptableCount   == CountOf(criteriaRatings, "A", "acceptable")
        concernCount      == CountOf(criteriaRatings, "C", "concern")
        unacceptableCount == CountOf(criteriaRatings, "U", "unacceptable")
        notRelevantCount  == CountOf(criteriaRatings, "N", "not-relevant")
        totalRelevant == TotalRelevant(Len(criteriaRatings), notRelevantCount)
        score == acceptableCount * 100 + concernCount * ConcernCredit
        percentage ==
            IF totalRelevant > 0
            THEN Percentage(score, totalRelevant,
                            FallsBelow(acceptableCount, concernCount,
                                       totalRelevant))
            ELSE NoRelevantPercentage
    IN  [acceptable    |-> acceptableCount,
         concern       |-> concernCount,
         unacceptable  |-> unacceptableCount,
         notRelevant   |-> notRelevantCount,
         total         |-> Len(criteriaRatings),
         totalRelevant |-> totalRelevant,
         score         |-> score,
         percentage    |-> Round2(percentage),
         ragRating     |-> calculateRAGRating(percentage)]

\* k entries of one rating
Repeat(rating, k) == [i \in 1..k |-> rating]

Reverse(seq) == [i \in 1..Len(seq) |-> seq[Len(seq) + 1 - i]]

\* the arrays of one rating per criterion, by how many entries of each
\* rating they hold, in two orders
RatingArrays ==
    LET blocks(a, c, u) ==
            Repeat("acceptable", a) \o Repeat("concern", c)
            \o Repeat("unacceptable", u)
            \o Repeat("not-relevant", NumCriteria - a - c - u)
        sorted == {blocks(a, c, u) :
                      <<a, c, u>> \in
                          {t \in (0..NumCriteria) \X (0..NumCriteria)
                                 \X (0..NumCriteria) :
                              t[1] + t[2] + t[3] <= NumCriteria}}
    IN  sorted \cup {Reverse(r) : r \in sorted}

\* no score computed yet
NoScore ==
    [acceptable |-> 0, concern |-> 0, unacceptable |-> 0, notRelevant |-> 0,
     total |-> 0, totalRelevant |-> 0, score |-> 0, percentage |-> 0,
     ragRating |-> "none"]

InitScore ==
    /\ ServerIdle
    /\ RecordIdle
    /\ \E r \in RatingArrays, k \in 1..MaxExtraNotRelevant :
           unit = [fn |-> "calculateScore",
                   criteriaRatings |-> r,
                   moreNotRelevant |-> r \o Repeat("not-relevant", k),
                   scoreData |-> NoScore,
                   moreScoreData |-> NoScore]

\* const scoreData = calculateScore(ratings)
CalculateScore ==
    /\ unit.fn = "calculateScore"
    /\ unit.scoreData = NoScore
    /\ unit' = [unit EXCEPT !.scoreData = calculateScore(unit.criteriaRatings)]
    /\ UNCHANGED <<serverVars, recordVars>>

\* the same ratings with more NotRelevant entries are scored
CalculateScoreMore ==
    /\ unit.fn = "calculateScore"
    /\ unit.moreScoreData = NoScore
    /\ unit' = [unit EXCEPT
                   !.moreScoreData = calculateScore(unit.moreNotRelevant)]
    /\ UNCHANGED <<serverVars, recordVars>>

NextScore == CalculateScore \/ CalculateScoreMore

SpecScore == InitScore /\ [][NextScore]_vars

\* the record's twelve ratings have been scored
Scored == unit.fn = "calculateScore" /\ unit.scoreData # NoScore

\* both arrays have been scored
ScoredBoth == Scored /\ unit.moreScoreData # NoScore

\* how many of the record's ratings are the given one
Holds(rating) ==
    Cardinality({i \in 1..Len(unit.criteriaRatings) :
                    unit.criteriaRatings[i] = rating})

\* C16: the percentage of 12 ratings lies in [0, 100], and is 0 when every
\* rating is NotRelevant.
C16_PercentageRange ==
    (Scored /\ Len(unit.criteriaRatings) = 12) =>
        /\ unit.scoreData.percentage \in 0..10000
        /\ Holds("not-relevant") = 12 => unit.scoreData.percentage = 0

\* twelve NotRelevant ratings have been scored
C16_Witness ==
    /\ Scored
    /\ unit.criteriaRatings = [i \in 1..12 |-> "not-relevant"]
    /\ unit.scoreData.totalRelevant = 0
    /\ unit.scoreData.percentage = 0

\* C17: two arrays with the same ratings other than NotRelevant, whatever
\* the number of NotRelevant entries of each, get the same percentage.
C17_ExclusionLaw ==
    (ScoredBoth
     /\ SelectSeq(unit.criteriaRatings, LAMBDA r : r # "not-relevant")
        = SelectSeq(unit.moreNotRelevant, LAMBDA r : r # "not-relevant")
     /\ unit.scoreData.notRelevant # unit.moreScoreData.notRelevant) =>
        unit.scoreData.percentage = unit.moreScoreData.percentage

\* arrays with one and with more NotRelevant entries, both scored 83.64
C17_Witness ==
    /\ ScoredBoth
    /\ unit.scoreData.notRelevant = 1
    /\ unit.moreScoreData.notRelevant > 1
    /\ unit.scoreData.percentage = 8364
    /\ unit.moreScoreData.percentage = 8364

RagInputs ==
    {Percentage(h, 100, below) : h \in 0..10000, below \in BOOLEAN}

InitRAG ==
    /\ ServerIdle
    /\ RecordIdle
    /\ \E p \in RagInputs :
           unit = [fn |-> "calculateRAGRating", percentage |-> p,
                   rating |-> "none"]

\* ragRating: calculateRAGRating(percentage)
CalculateRAGRating ==
    /\ unit.fn = "calculateRAGRating"
    /\ unit.rating = "none"
    /\ unit' = [unit EXCEPT !.rating = calculateRAGRating(unit.percentage)]
    /\ UNCHANGED <<serverVars, recordVars>>

NextRAG == CalculateRAGRating

SpecRAG == InitRAG /\ [][NextRAG]_vars

\* the percentage in hand is exactly h hundredths
IsHundredths(h) == unit.percentage = Percentage(h, 100, FALSE)

\* the percentage in hand is under h hundredths
UnderHundredths(h) ==
    \/ unit.percentage.num < h
    \/ unit.percentage.num = h /\ unit.percentage.below

\* C19: the band of a percentage is GREEN from 90, YELLOW from 70, AMBER
\* from 50 and RED under 50, each bound belonging to the band above it:
\* 90 is GREEN, 89.99 YELLOW, 69.99 AMBER, 49.99 RED; one percentage has
\* one band.
C19_BandLadder ==
    (unit.fn = "calculateRAGRating" /\ unit.rating # "none") =>
        /\ unit.rating \in {"GREEN", "YELLOW", "AMBER", "RED"}
        /\ unit.rating = "GREEN" <=> ~UnderHundredths(9000)
        /\ unit.rating = "YELLOW" <=>
               UnderHundredths(9000) /\ ~UnderHundredths(7000)
        /\ unit.rating = "AMBER" <=>
               UnderHundredths(7000) /\ ~UnderHundredths(5000)
        /\ unit.rating = "RED" <=> UnderHundredths(5000)
        /\ IsHundredths(9000) => unit.rating = "GREEN"
        /\ IsHundredths(8999) => unit.rating = "YELLOW"
        /\ IsHundredths(6999) => unit.rating = "AMBER"
        /\ IsHundredths(4999) => unit.rating = "RED"

\* exactly 90 per cent has been banded GREEN
C19_Witness ==
    /\ unit.fn = "calculateRAGRating"
    /\ IsHundredths(9000)
    /\ unit.rating = "GREEN"

(* ------------------ auditService: parseConsultations ------------------- *)
\* most lines of a submitted text
MaxInputLines == 4

\* a line of the submitted text: what it holds, and whether white space
\* surrounds it.  standard: 'DD-MMM-YYYY HH:MM' and text; uuid: a UUID, a
\* bare date and text; dateonly: 'DD-MMM-YYYY HH:MM' and nothing else;
\* header: 'Date ... Consultation Text'; note: any other text; blank:
\* nothing, or white space only when padded
LineKinds == {"standard", "uuid", "dateonly", "header", "note", "blank"}

Line(kind, padded) == [kind |-> kind, padded |-> padded, part |-> "line"]

InputLines == {Line(k, p) : k \in LineKinds, p \in BOOLEAN}

\* three date-stamped blocks of two continuation lines each
ThreeBlocks ==
    LET block == <<Line("standard", FALSE), Line("note", FALSE),
                   Line("note", FALSE)>>
    IN  block \o block \o block

Inputs ==
    UNION {[1..n -> InputLines] : n \in 0..MaxInputLines} \cup {ThreeBlocks}

\* the line is left as submitted
untrimmed(line) == line

\* String.prototype.trim on a line
trim(line) == [line EXCEPT !.padded = FALSE]

\* consultationData.trim().split('\n'): blank lines at either end go
RECURSIVE DropBlankEnds(_)
DropBlankEnds(lines) ==
    IF lines = <<>> THEN <<Line("blank", FALSE)>>
    ELSE IF Head(lines).kind = "blank" THEN DropBlankEnds(Tail(lines))
    ELSE IF lines[Len(lines)].kind = "blank"
        THEN DropBlankEnds(SubSeq(lines, 1, Len(lines) - 1))
    ELSE lines

\* line.startsWith('Date') && line.includes('Consultation Text')
IsHeaderLine(line) == line.kind = "header" /\ ~line.padded

\* /^uuid\s+(date)\s+(.+)/i matches
uuidDateMatch(line) == line.kind = "uuid" /\ ~line.padded

\* /^(date\s+time)\s+(.+)/ matches
dateMatch(line) == line.kind = "standard" /\ ~line.padded

\* the capture group (.+) of a start line: what follows the date
Rest(line) == [line EXCEPT !.part = "rest"]

NoConsultation == [date |-> "none", text |-> <<>>, fullText |-> <<>>]

\* text and fullText are the newline-joined pieces, as sequences
StartConsultation(line) ==
    [date     |-> IF line.kind = "uuid" THEN "DD-MMM-YYYY 00:00"
                  ELSE "DD-MMM-YYYY HH:MM",
     text     |-> <<Rest(line)>>,
     fullText |-> <<line>>]

\* if (currentConsultation) consultations.push(currentConsultation)
Push(records, currentConsultation) ==
    IF currentConsultation # NoConsultation
    THEN Append(records, currentConsultation)
    ELSE records

\* the open record is left out at the end of the input
EndWithoutFlush(records, currentConsultation) == records

\* 'Add the last consultation'
EndOfInput(records, currentConsultation) ==
    Push(records, currentConsultation)

\* a line is appended whether or not a record is open
AlwaysOpen(currentConsultation) == TRUE

\* else if (currentConsultation && ...): a record is open
IsOpen(currentConsultation) == currentConsultation # NoConsultation

\* the for loop from line i on
RECURSIVE ParseFrom(_, _, _, _)
ParseFrom(lines, i, records, currentConsultation) ==
    IF i > Len(lines) THEN EndOfInput(records, currentConsultation)
    ELSE LET line == trim(lines[i])
         IN  IF IsHeaderLine(line)
                 THEN ParseFrom(lines, i + 1, records,
                                currentConsultation)
             ELSE IF uuidDateMatch(line) \/ dateMatch(line)
                 THEN ParseFrom(lines, i + 1,
                                Push(records, currentConsultation),
                                StartConsultation(line))
             ELSE IF IsOpen(currentConsultation) /\ line.kind # "blank"
                 THEN ParseFrom(lines, i + 1, records,
                         [currentConsultation EXCEPT
                             !.text = Append(@, line),
                             !.fullText = Append(@, line)])
             ELSE ParseFrom(lines, i + 1, records, currentConsultation)

\* parseConsultations on the lines of the submitted text
parseConsultationLines(data) ==
    ParseFrom(DropBlankEnds(data), 1, <<>>, NoConsultation)

InitParse ==
    /\ ServerIdle
    /\ RecordIdle
    /\ \E data \in Inputs :
           unit = [fn |-> "parseConsultations", consultationData |-> data,
                   done |-> FALSE, consultations |-> <<>>]

\* const consultations = this.parseConsultations(consultationData)
ParseConsultations ==
    /\ unit.fn = "parseConsultations"
    /\ ~unit.done
    /\ unit' = [unit EXCEPT
                   !.done = TRUE,
                   !.consultations =
                       parseConsultationLines(unit.consultationData)]
    /\ UNCHANGED <<serverVars, recordVars>>

NextParse == ParseConsultations

SpecParse == InitParse /\ [][NextParse]_vars

\* the submitted text has been parsed
Parsed == unit.fn = "parseConsultations" /\ unit.done

\* the positions of the record-start lines of the submitted text
StartPositions ==
    {i \in 1..Len(unit.consultationData) :
        unit.consultationData[i].kind \in {"standard", "uuid"}}

\* the position of the k-th record-start line
StartPosition(k) ==
    CHOOSE i \in StartPositions :
        Cardinality({j \in StartPositions : j <= i}) = k

\* the lines after the k-th record-start line up to the next one or to the
\* end of the input
LinesAfterStart(k) ==
    LET from == StartPosition(k)
        later == {j \in StartPositions : j > from}
        to == IF later = {} THEN Len(unit.consultationData)
              ELSE (CHOOSE j \in later : \A o \in later : j <= o) - 1
    IN  SubSeq(unit.consultationData, from + 1, to)

\* C20 (as stated): one record per record-start line, in input order; each
\* record's text is its start line followed by exactly the non-empty lines
\* up to the next record start or the end of the input, verbatim; the last
\* open record is flushed; three blocks of two continuation lines give
\* three records.
C20_RecordsVerbatim ==
    Parsed =>
        /\ Len(unit.consultations) = Cardinality(StartPositions)
        /\ \A k \in 1..Len(unit.consultations) :
               unit.consultations[k].fullText =
                   <<unit.consultationData[StartPosition(k)]>>
                   \o SelectSeq(LinesAfterStart(k),
                                LAMBDA l : l.kind # "blank")
        /\ unit.consultationData = ThreeBlocks =>
               Len(unit.consultations) = 3

\* C20 (amended): one record per record-start line, in input order; each
\* record's fullText is its start line followed by exactly the lines up to
\* the next record start or the end of the input, every line trimmed of
\* surrounding white space, lines that are empty after trimming and header
\* lines ('Date ... Consultation Text') left out; its text is the same
\* without the date at the head of the start line; the last open record is
\* flushed; three blocks of two continuation lines give three records.
C20_RecordsTrimmed ==
    Parsed =>
        /\ Len(unit.consultations) = Cardinality(StartPositions)
        /\ \A k \in 1..Len(unit.consultations) :
               LET start == unit.consultationData[StartPosition(k)]
                   kept == SelectSeq(LinesAfterStart(k),
                               LAMBDA l : l.kind \notin {"blank", "header"})
                   trimmed == [i \in 1..Len(kept) |->
                                  Line(kept[i].kind, FALSE)]
               IN  /\ unit.consultations[k].fullText =
                          <<Line(start.kind, FALSE)>> \o trimmed
                   /\ unit.consultations[k].text =
                          <<[kind |-> start.kind, padded |-> FALSE,
                             part |-> "rest"]>> \o trimmed
        /\ unit.consultationData = ThreeBlocks =>
               Len(unit.consultations) = 3

\* the three blocks have been parsed to three records of three lines
C20_Witness ==
    /\ Parsed
    /\ unit.consultationData = ThreeBlocks
    /\ Len(unit.consultations) = 3
    /\ \A k \in 1..3 : Len(unit.consultations[k].fullText) = 3

\* where the first record-start line stands; past the end when there is none
FirstStart ==
    IF StartPositions = {} THEN Len(unit.consultationData) + 1
    ELSE CHOOSE i \in StartPositions : \A o \in StartPositions : i <= o

\* the lines of all returned records together
RECURSIVE LineTotal(_)
LineTotal(records) ==
    IF records = <<>> THEN 0
    ELSE Len(Head(records).fullText) + LineTotal(Tail(records))

\* C21: with no record-start line in the input the result is the empty
\* list; a continuation line standing before the first record start opens
\* no record and is in no returned record: the records are as many as the
\* start lines, each begins with a start line, and together they hold only
\* the lines from the first start line on.
C21_NothingBeforeFirstStart ==
    Parsed =>
        LET data == unit.consultationData
            fromFirst == SubSeq(data, FirstStart, Len(data))
        IN  /\ StartPositions = {} => unit.consultations = <<>>
            /\ Len(unit.consultations) = Cardinality(StartPositions)
            /\ \A k \in 1..Len(unit.consultations) :
                   /\ unit.consultations[k].date # "none"
                   /\ unit.consultations[k].fullText[1].kind
                          \in {"standard", "uuid"}
            /\ LineTotal(unit.consultations) =
                   Len(SelectSeq(fromFirst,
                           LAMBDA l : l.kind \notin {"blank", "header"}))

\* a note ahead of the only record start has been dropped
C21_Witness ==
    /\ Parsed
    /\ unit.consultationData =
           <<Line("note", FALSE), Line("standard", FALSE),
             Line("note", TRUE)>>
    /\ Len(unit.consultations) = 1
    /\ Len(unit.consultations[1].fullText) = 2

(* ----------------- auditService: generateDetailedAnalysis --------------- *)
\* most records of an analysed full review
MaxReviewed == 10

\* the criteria whose ratings vary between the analysed reviews
VariedCriteria == 4

\* most records in which a varied criterion is not rated acceptable
MaxNotAcceptable == 3

\* concernAreas and strengths are cut to this many entries
TopCount == 5

\* rating of criterion id in record number of a review of n records, when
\* the criterion is not acceptable in m of them: criteria of odd id in the
\* first m records, of even id in the last m, the rating going round
\* concern, unacceptable and three times not-relevant; 11 is acceptable
\* and 12 not relevant throughout
RatingIn(id, number, n, m) ==
    IF id = 11 THEN "acceptable"
    ELSE IF id = 12 THEN "not-relevant"
    ELSE IF (id % 2 = 1 /\ number <= m) \/ (id % 2 = 0 /\ number > n - m)
    THEN CASE (id + number) % 5 = 1 -> "concern"
           [] (id + number) % 5 = 2 -> "unacceptable"
           [] OTHER -> "not-relevant"
    ELSE "acceptable"

\* one entry of individualAssessments: the record's number, its twelve
\* ratings by criterion id and its scoring
AssessedRecord(number, ratings) ==
    [consultationNumber |-> number,
     ratings |-> ratings,
     scoring |-> calculateScore(ratings)]

\* the assessed record lists of the analysed full reviews; past the varied
\* criteria a criterion is not acceptable in as many records as may be
AssessedReviews ==
    {[number \in 1..n |->
         AssessedRecord(number,
             [id \in CriterionIds |->
                 RatingIn(id, number, n,
                          IF id <= VariedCriteria THEN m[id]
                          ELSE MaxNotAcceptable)])] :
        n \in MinFullReview..MaxReviewed,
        m \in [1..VariedCriteria -> 0..MaxNotAcceptable]}

\* a later record of the same percentage replaces the one held
BetterOrEqual(current, best) ==
    current.scoring.percentage >= best.scoring.percentage

\* current.assessment.scoring.percentage > best.assessment.scoring.percentage
Better(current, best) ==
    current.scoring.percentage > best.scoring.percentage

\* current.assessment.scoring.percentage < worst.assessment.scoring.percentage
Worse(current, worst) ==
    current.scoring.percentage < worst.scoring.percentage

\* individualAssessments.reduce((best, current) => ...), no initial value
RECURSIVE ReduceBest(_, _, _)
ReduceBest(assessments, i, best) ==
    IF i > Len(assessments) THEN best
    ELSE ReduceBest(assessments, i + 1,
                    IF Better(assessments[i], best) THEN assessments[i]
                    ELSE best)

RECURSIVE ReduceWorst(_, _, _)
ReduceWorst(assessments, i, worst) ==
    IF i > Len(assessments) THEN worst
    ELSE ReduceWorst(assessments, i + 1,
                     IF Worse(assessments[i], worst) THEN assessments[i]
                     ELSE worst)

\* the records in which the criterion has one of the ratings, in order
RecordsRated(assessments, id, ratings) ==
    SelectSeq([i \in 1..Len(assessments) |-> i],
              LAMBDA i : assessments[i].ratings[id] \in ratings)

\* the keys of a Map filled by the nested forEach, in insertion order: a
\* criterion is inserted at the first record that rates it so, and within
\* one record in criterion order
RECURSIVE InsertionOrder(_, _, _)
InsertionOrder(assessments, ratings, keys) ==
    LET left == {id \in CriterionIds :
                    /\ RecordsRated(assessments, id, ratings) # <<>>
                    /\ \A i \in 1..Len(keys) : keys[i] # id}
        firstSeen(id) ==
            RecordsRated(assessments, id, ratings)[1] * (NumCriteria + 1) + id
    IN  IF left = {} THEN keys
        ELSE InsertionOrder(assessments, ratings,
                 Append(keys, CHOOSE id \in left :
                                  \A o \in left : firstSeen(id) <= firstSeen(o)))

\* the entries are left in insertion order
Unsorted(entries, sorted) == entries

\* Array.prototype.sort((a, b) => b.count - a.count): stable, so an entry
\* goes behind every entry of at least its count
RECURSIVE SortByCount(_, _)
SortByCount(entries, sorted) ==
    IF entries = <<>> THEN sorted
    ELSE LET e == Head(entries)
             ahead == SelectSeq(sorted, LAMBDA s : s.count >= e.count)
             behind == SelectSeq(sorted, LAMBDA s : s.count < e.count)
         IN  SortByCount(Tail(entries), ahead \o <<e>> \o behind)

\* .slice(0, 5)
Slice(entries, n) == SubSeq(entries, 1, Min(Len(entries), n))

Flagged == {"concern", "unacceptable"}

identifyCommonConcerns(assessments) ==
    LET keys == InsertionOrder(assessments, Flagged, <<>>)
        concernMap ==
            [i \in 1..Len(keys) |->
                [criterionId |-> keys[i],
                 count |-> Len(RecordsRated(assessments, keys[i], Flagged)),
                 occurrences |->
                     RecordsRated(assessments, keys[i], Flagged)]]
    IN  Slice(SortByCount(concernMap, <<>>), TopCount)

\* the records in which the criterion was relevant
RelevantRecords(assessments, id) ==
    Len(RecordsRated(assessments, id,
                     {"acceptable", "concern", "unacceptable"}))

\* const totalConsultations = individualAssessments.length
TotalConsultations(assessments, id) == Len(assessments)

\* (s.count / totalConsultations) >= 0.8; the quotient of a count that is
\* exactly four fifths is the double 0.8
HighAcceptableRate(count, total) == 5 * count >= 4 * total

identifyStrengths(assessments) ==
    LET keys == InsertionOrder(assessments, {"acceptable"}, <<>>)
        strengthMap ==
            [i \in 1..Len(keys) |->
                [criterionId |-> keys[i],
                 count |-> Len(RecordsRated(assessments, keys[i],
                                            {"acceptable"}))]]
        high == SelectSeq(strengthMap,
                    LAMBDA s : HighAcceptableRate(s.count,
                                   TotalConsultations(assessments,
                                                      s.criterionId)))
    IN  Slice(SortByCount(high, <<>>), TopCount)

Performing(assessed) ==
    [consultationNumber |-> assessed.consultationNumber,
     score |-> assessed.scoring.percentage,
     rag |-> assessed.scoring.ragRating]

generateDetailedAnalysis(assessments) ==
    [bestPerforming  |-> Performing(ReduceBest(assessments, 2,
                                               assessments[1])),
     worstPerforming |-> Performing(ReduceWorst(assessments, 2,
                                                assessments[1])),
     concernAreas    |-> identifyCommonConcerns(assessments),
     strengths       |-> identifyStrengths(assessments)]

NoAnalysis ==
    [bestPerforming  |-> [consultationNumber |-> 0, score |-> 0,
                          rag |-> "none"],
     worstPerforming |-> [consultationNumber |-> 0, score |-> 0,
                          rag |-> "none"],
     concernAreas    |-> <<>>,
     strengths       |-> <<>>]

InitAnalysis ==
    /\ ServerIdle
    /\ RecordIdle
    /\ \E assessments \in AssessedReviews :
           unit = [fn |-> "generateDetailedAnalysis",
                   assessments |-> assessments,
                   done |-> FALSE,
                   detailedAnalysis |-> NoAnalysis]

\* const detailedAnalysis = this.generateDetailedAnalysis(...)
GenerateDetailedAnalysis ==
    /\ unit.fn = "generateDetailedAnalysis"
    /\ ~unit.done
    /\ unit' = [unit EXCEPT
                   !.done = TRUE,
                   !.detailedAnalysis =
                       generateDetailedAnalysis(unit.assessments)]
    /\ UNCHANGED <<serverVars, recordVars>>

NextAnalysis == GenerateDetailedAnalysis

SpecAnalysis == InitAnalysis /\ [][NextAnalysis]_vars

\* the review has been analysed
Analysed == unit.fn = "generateDetailedAnalysis" /\ unit.done

\* the percentage of the record at a position of the record list
PercentageAt(i) == unit.assessments[i].scoring.percentage

\* C22: bestPerforming is a record of the highest percentage and
\* worstPerforming one of the lowest, and of several such records the one
\* at the lowest position of the record list is reported.
C22_BestAndWorst ==
    Analysed =>
        LET n == Len(unit.assessments)
            best == unit.detailedAnalysis.bestPerforming
            worst == unit.detailedAnalysis.worstPerforming
        IN  /\ best.consultationNumber \in 1..n
            /\ worst.consultationNumber \in 1..n
            /\ best.score = PercentageAt(best.consultationNumber)
            /\ worst.score = PercentageAt(worst.consultationNumber)
            /\ \A i \in 1..n :
                   /\ PercentageAt(i) <= best.score
                   /\ PercentageAt(i) >= worst.score
                   /\ PercentageAt(i) = best.score =>
                          best.consultationNumber <= i
                   /\ PercentageAt(i) = worst.score =>
                          worst.consultationNumber <= i

\* several records share the highest percentage and the first is reported
C22_Witness ==
    /\ Analysed
    /\ \E i, j \in 1..Len(unit.assessments) :
           /\ i < j
           /\ PercentageAt(i) = PercentageAt(j)
           /\ unit.detailedAnalysis.bestPerforming.consultationNumber = i
    /\ unit.detailedAnalysis.bestPerforming.consultationNumber > 1
    /\ unit.detailedAnalysis.worstPerforming.score
           < unit.detailedAnalysis.bestPerforming.score

\* how many records rate the criterion concern or unacceptable
ConcernCount(id) ==
    Cardinality({i \in 1..Len(unit.assessments) :
                    unit.assessments[i].ratings[id]
                        \in {"concern", "unacceptable"}})

\* how many records rate the criterion acceptable
AcceptableCount(id) ==
    Cardinality({i \in 1..Len(unit.assessments) :
                    unit.assessments[i].ratings[id] = "acceptable"})

\* C23: identifyCommonConcerns returns at most five criteria, each with at
\* least one Concern or Unacceptable rating, in descending order of their
\* Concern + Unacceptable count over all records, and no criterion left
\* out has a higher count than a returned one.
C23_CommonConcerns ==
    Analysed =>
        LET areas == unit.detailedAnalysis.concernAreas
            returned == {areas[i].criterionId : i \in 1..Len(areas)}
        IN  /\ Len(areas) <= 5
            /\ Cardinality(returned) = Len(areas)
            /\ \A i \in 1..Len(areas) :
                   /\ areas[i].criterionId \in CriterionIds
                   /\ areas[i].count = ConcernCount(areas[i].criterionId)
                   /\ areas[i].count >= 1
            /\ \A i, j \in 1..Len(areas) :
                   i < j => areas[i].count >= areas[j].count
            /\ \A id \in CriterionIds \ returned :
                   \A r \in returned : ConcernCount(id) <= ConcernCount(r)
            /\ Len(areas) < 5 =>
                   \A id \in CriterionIds \ returned : ConcernCount(id) = 0

\* more than five criteria have concerns and the list was cut to five,
\* re-ordered
C23_Witness ==
    /\ Analysed
    /\ Cardinality({id \in CriterionIds : ConcernCount(id) > 0}) > 5
    /\ Len(unit.detailedAnalysis.concernAreas) = 5
    /\ \E i, j \in 1..5 :
           /\ i < j
           /\ unit.detailedAnalysis.concernAreas[i].criterionId
                  > unit.detailedAnalysis.concernAreas[j].criterionId
           /\ unit.detailedAnalysis.concernAreas[i].count
                  > unit.detailedAnalysis.concernAreas[j].count

C22_WorstTie ==
    /\ Analysed
    /\ \E i, j \in 1..Len(unit.assessments) :
           /\ i < j
           /\ PercentageAt(i) = PercentageAt(j)
           /\ unit.detailedAnalysis.worstPerforming.consultationNumber = i
           /\ unit.detailedAnalysis.worstPerforming.score = PercentageAt(j)

(* ------------- piiValidator: detection and anonymisation --------------- *)
\* most words of a text handed to validateAndAnonymize
MaxWords == 3

\* most names in an answer of the name detection
MaxNames == 2

\* a word is its characters; a text and a name are words one space apart
John == <<"J", "o", "h", "n">>

JohnLower == <<"j", "o", "h", "n">>

Smith == <<"S", "m", "i", "t", "h">>

Owen == <<"O", "w", "e", "n">>

Jo == <<"J", "o">>

JustJ == <<"J">>

Words == {John, JohnLower, Smith, Owen, Jo, JustJ}

WordTexts == UNION {[1..n -> Words] : n \in 0..MaxWords}

\* the names an answer of the detection may hold
Names == {<<John, Smith>>, <<John, Owen>>, <<John>>, <<Jo>>, <<JustJ>>}

NameLists == UNION {[1..n -> Names] : n \in 0..MaxNames}

\* String.prototype.toUpperCase on a character
UpperChar(ch) ==
    CASE ch = "j" -> "J"
      [] ch = "o" -> "O"
      [] ch = "s" -> "S"
      [] OTHER -> ch

\* the 'i' flag of the pattern, on a character
LowerChar(ch) ==
    CASE ch = "J" -> "j"
      [] ch = "O" -> "o"
      [] ch = "S" -> "s"
      [] OTHER -> ch

LowerWord(word) == [i \in 1..Len(word) |-> LowerChar(word[i])]

\* name.split(/\s+/).filter(...).map(part => part[0].toUpperCase()).join('')
nameToInitials(name) == [i \in 1..Len(name) |-> UpperChar(name[i][1])]

\* name.length: the characters of the words and the spaces between them
RECURSIVE NameLength(_)
NameLength(name) ==
    IF name = <<>> THEN 0
    ELSE Len(Head(name)) + (IF Len(name) > 1 THEN 1 ELSE 0)
         + NameLength(Tail(name))

\* a.name.length - b.name.length: the shortest name goes first
ShorterFirst(a, b) == NameLength(a) < NameLength(b)

\* b.name.length - a.name.length is negative: a goes before b
LongerFirst(a, b) == NameLength(a) > NameLength(b)

\* [...names].sort(...): stable, so a name goes behind every name that
\* need not follow it
RECURSIVE SortNames(_, _)
SortNames(names, sorted) ==
    IF names = <<>> THEN sorted
    ELSE LET n == Head(names)
             ahead == SelectSeq(sorted, LAMBDA s : ~LongerFirst(n, s))
             behind == SelectSeq(sorted, LAMBDA s : LongerFirst(n, s))
         IN  SortNames(Tail(names), ahead \o <<n>> \o behind)

\* new RegExp('\\b' + name + '\\b', 'gi') matches the words from i on
NameMatchesAt(words, name, i) ==
    /\ i + Len(name) - 1 <= Len(words)
    /\ \A k \in 1..Len(name) :
           LowerWord(words[i + k - 1]) = LowerWord(name[k])

\* regex.test(anonymizedText)
NameFound(words, name) ==
    \E i \in 1..Len(words) : NameMatchesAt(words, name, i)

\* anonymizedText.replace(regex, initials): every match, left to right
RECURSIVE ReplaceName(_, _, _)
ReplaceName(words, name, i) ==
    IF i > Len(words) THEN <<>>
    ELSE IF NameMatchesAt(words, name, i)
        THEN <<nameToInitials(name)>>
             \o ReplaceName(words, name, i + Len(name))
    ELSE <<words[i]>> \o ReplaceName(words, name, i + 1)

\* the for loop over sortedNames
RECURSIVE AnonymizeFrom(_, _, _)
AnonymizeFrom(sortedNames, words, replacements) ==
    IF sortedNames = <<>>
    THEN [anonymizedText |-> words, replacements |-> replacements]
    ELSE LET originalName == Head(sortedNames)
         IN  IF NameFound(words, originalName)
             THEN AnonymizeFrom(Tail(sortedNames),
                      ReplaceName(words, originalName, 1),
                      Append(replacements,
                             [original |-> originalName,
                              replacement |-> nameToInitials(originalName)]))
             ELSE AnonymizeFrom(Tail(sortedNames), words, replacements)

anonymizeNames(words, names) ==
    IF names = <<>>
    THEN [anonymizedText |-> words, replacements |-> <<>>]
    ELSE AnonymizeFrom(SortNames(names, <<>>), words, <<>>)

\* the patterns of this validateForPII
PatternTypes ==
    {"NHS_NUMBER", "DATE_OF_BIRTH", "POSTCODE", "PHONE_NUMBER", "EMAIL"}

\* what the patterns find in the submitted texts
PatternFindings == {{}, {"NHS_NUMBER", "EMAIL"}, {"POSTCODE"}}

\* validateForPII of this module: one issue per pattern that matches
patternIssues(marks) == IssuesFrom(1, marks \cap PatternTypes)

\* the answers of the name detection call: a JSON array of name objects,
\* text that JSON.parse rejects, JSON that is no array (null), a JSON array
\* whose entries have no name
DetectionAnswers ==
    {[kind |-> "names", names |-> l] : l \in NameLists}
    \cup {[kind |-> k, names |-> <<>>] :
             k \in {"unparsable", "null", "nameless"}}

\* JSON.parse(jsonContent) and the return of detectPersonNames; names.length
\* of null throws into the catch
ParsedNames(answer) ==
    IF answer.kind \in {"unparsable", "null"} THEN <<>> ELSE answer.names

NoOutcome == [issues |-> <<>>, anonymizedText |-> <<>>,
              nameReplacements |-> <<>>, hasNames |-> FALSE]

\* a replacement is reported whether or not one was made
AlwaysReported(replacements) == TRUE

\* if (replacements.length > 0)
NamesReported(replacements) == Len(replacements) > 0

\* validateAndAnonymize from the return of detectPersonNames on
Outcome(words, marks, detectedNames) ==
    LET anonymized == anonymizeNames(words, detectedNames)
        replacements == anonymized.replacements
    IN  [issues |->
             patternIssues(marks)
             \o (IF NamesReported(replacements)
                 THEN <<[type |-> "PERSON_NAMES", severity |-> "HIGH"]>>
                 ELSE <<>>),
         anonymizedText |-> anonymized.anonymizedText,
         nameReplacements |-> replacements,
         hasNames |-> Len(replacements) > 0]

InitAnonymize ==
    /\ ServerIdle
    /\ RecordIdle
    /\ \E words \in WordTexts, marks \in PatternFindings,
          client \in BOOLEAN :
           unit = [fn |-> "validateAndAnonymize",
                   text |-> words,
                   marks |-> marks,
                   client |-> client,
                   pc |-> "called",
                   detected |-> "none",
                   detectedNames |-> <<>>,
                   outcome |-> NoOutcome]

\* validateAndAnonymize up to the detection request; without a client
\* detectPersonNames returns [] and the function runs to its return
ValidateAndAnonymize ==
    /\ unit.fn = "validateAndAnonymize"
    /\ unit.pc = "called"
    /\ unit' = IF unit.client
               THEN [unit EXCEPT !.pc = "detecting"]
               ELSE [unit EXCEPT
                        !.pc = "returned",
                        !.detected = "unavailable",
                        !.outcome = Outcome(unit.text, unit.marks, <<>>)]
    /\ UNCHANGED <<serverVars, recordVars>>

\* the detection call answers; an array whose entries have no name makes
\* anonymizeNames throw
DetectionAnswered ==
    /\ unit.fn = "validateAndAnonymize"
    /\ unit.pc = "detecting"
    /\ \E answer \in DetectionAnswers :
           unit' = IF answer.kind = "nameless"
                   THEN [unit EXCEPT !.pc = "threw",
                                     !.detected = answer.kind]
                   ELSE [unit EXCEPT
                            !.pc = "returned",
                            !.detected = answer.kind,
                            !.detectedNames = ParsedNames(answer),
                            !.outcome = Outcome(unit.text, unit.marks,
                                                ParsedNames(answer))]
    /\ UNCHANGED <<serverVars, recordVars>>

\* the detection call fails: the catch returns []
DetectionFailed ==
    /\ unit.fn = "validateAndAnonymize"
    /\ unit.pc = "detecting"
    /\ unit' = [unit EXCEPT
                   !.pc = "returned",
                   !.detected = "error",
                   !.outcome = Outcome(unit.text, unit.marks, <<>>)]
    /\ UNCHANGED <<serverVars, recordVars>>

NextAnonymize ==
    \/ ValidateAndAnonymize
    \/ DetectionAnswered
    \/ DetectionFailed

SpecAnonymize == InitAnonymize /\ [][NextAnonymize]_vars

\* validateAndAnonymize has returned after an answer that held names
Anonymized ==
    /\ unit.fn = "validateAndAnonymize"
    /\ unit.pc = "returned"
    /\ unit.detectedNames # <<>>

\* the detected names
DetectedNames == {unit.detectedNames[i] : i \in 1..Len(unit.detectedNames)}

\* the places of the submitted text at which the name stands as whole
\* words, in either case, outside every longer detected name
PlacesOf(name) ==
    {i \in 1..Len(unit.text) :
        /\ NameMatchesAt(unit.text, name, i)
        /\ ~\E longer \in DetectedNames, j \in 1..Len(unit.text) :
               /\ NameLength(longer) > NameLength(name)
               /\ NameMatchesAt(unit.text, longer, j)
               /\ j <= i
               /\ i + Len(name) <= j + Len(longer)}

\* how many words of the anonymized text are the given word
WordCount(word) ==
    Cardinality({i \in 1..Len(unit.outcome.anonymizedText) :
                    unit.outcome.anonymizedText[i] = word})

\* the replacements recorded for the name
ReplacementsOf(name) ==
    {i \in 1..Len(unit.outcome.nameReplacements) :
        unit.outcome.nameReplacements[i].original = name}

\* C25: for every detected name that stands in the text, the anonymized
\* text holds no whole-word occurrence of it in either case, holds its
\* initials for each place it stood at, and exactly one replacement
\* {original, replacement} is recorded for it; longer names are replaced
\* before shorter ones, so a name inside a longer detected name leaves the
\* longer one whole.
C25_RoundTrip ==
    Anonymized =>
        \A name \in DetectedNames :
            PlacesOf(name) # {} =>
                /\ ~NameFound(unit.outcome.anonymizedText, name)
                /\ WordCount(nameToInitials(name))
                       >= Cardinality(PlacesOf(name))
                /\ Cardinality(ReplacementsOf(name)) = 1
                /\ \A i \in ReplacementsOf(name) :
                       unit.outcome.nameReplacements[i].replacement
                           = nameToInitials(name)

\* the documented example: 'john Smith' with the detected name 'John
\* Smith' becomes 'JS', with one replacement
C25_Example ==
    (Anonymized /\ unit.detectedNames = <<<<John, Smith>>>>
     /\ unit.text = <<Owen, JohnLower, Smith>>) =>
        /\ unit.outcome.anonymizedText = <<Owen, <<"J", "S">>>>
        /\ unit.outcome.nameReplacements =
               <<[original |-> <<John, Smith>>,
                  replacement |-> <<"J", "S">>]>>


\* the PERSON_NAMES issues of the returned result
PersonNamesIssues ==
    SelectSeq(unit.outcome.issues, LAMBDA issue : issue.type = "PERSON_NAMES")

\* the detection was unavailable, failed, or answered what does not parse
\* to an array
DetectionFailedOpen ==
    /\ unit.fn = "validateAndAnonymize"
    /\ unit.pc = "returned"
    /\ unit.detected \in {"unavailable", "error", "unparsable", "null"}

\* C29: when the name detection is unavailable, fails or answers what
\* cannot be parsed, detectPersonNames yields the empty list and
\* validateAndAnonymize returns the text unchanged with no replacements and
\* no PERSON_NAMES issue; in every returned result a PERSON_NAMES issue of
\* HIGH severity is present exactly when at least one replacement was made.
C29_FailsOpen ==
    /\ DetectionFailedOpen =>
           /\ unit.detectedNames = <<>>
           /\ unit.outcome.anonymizedText = unit.text
           /\ unit.outcome.nameReplacements = <<>>
           /\ PersonNamesIssues = <<>>
           /\ unit.outcome.issues = patternIssues(unit.marks)
    /\ (unit.fn = "validateAndAnonymize" /\ unit.pc = "returned") =>
           /\ Len(PersonNamesIssues) =
                  (IF Len(unit.outcome.nameReplacements) >= 1 THEN 1 ELSE 0)
           /\ \A i \in 1..Len(PersonNamesIssues) :
                  PersonNamesIssues[i].severity = "HIGH"
           /\ unit.outcome.hasNames
                  = (Len(unit.outcome.nameReplacements) >= 1)

\* the detection call failed on a text that names John Smith beside an NHS
\* number and an e-mail address: the text comes back as it was
C29_Witness ==
    /\ DetectionFailedOpen
    /\ unit.detected = "error"
    /\ unit.text = <<John, Smith, Owen>>
    /\ unit.marks = {"NHS_NUMBER", "EMAIL"}
    /\ unit.outcome.anonymizedText = <<John, Smith, Owen>>
    /\ Len(unit.outcome.issues) = 2


\* the band of the percentage the score reports, which is in hundredths
ReportedBand ==
    calculateRAGRating(Percentage(unit.scoreData.percentage, 100, FALSE))

\* C30: for every array of 12 valid ratings the RAG band of the score,
\* which is taken from the unrounded percentage, is the band of the
\* two-decimal percentage the score reports.
C30_BandOfReportedPercentage ==
    (Scored /\ Len(unit.criteriaRatings) = 12) =>
        unit.scoreData.ragRating = ReportedBand

\* away from three acceptable and nine concern ratings the two bands agree
C30_BandsAgreeElsewhere ==
    (Scored /\ Len(unit.criteriaRatings) = 12
     /\ ~(Holds("acceptable") = 3 /\ Holds("concern") = 9)) =>
        unit.scoreData.ragRating = ReportedBand


(* ------------------------ bounded concurrency ------------------------ *)
\* the records whose pipeline was dispatched and has not settled
InFlight == dispatched \ (fulfilled \cup rejected)

\* C26: in every state of a full review with batch size B at most B record
\* pipelines are in flight.
C26_BoundedConcurrency ==
    endpoint = "full" => Cardinality(InFlight) <= batchSize

\* a later batch of a full review is in flight whole: as many pipelines
\* as the batch size, which is under the number of records
C26_Witness ==
    /\ endpoint = "full"
    /\ batchStart > 0
    /\ batchSize > 1
    /\ batchSize < Len(consultations)
    /\ Cardinality(InFlight) = batchSize


(* ------------- assessmentService: one record's assessment ------------- *)
\* the notes assessed to the end: a failed encounter, a coded telephone
\* consultation, an uncoded telephone consultation
AssessedTexts ==
    {<<"DNA">>,
     <<"Problem", " ", "asthma", "Telephone">>,
     <<"Telephone">>}

\* what the judgment call answers: tagged Acceptable, tagged Unacceptable
\* in lower case, no tag
JudgmentResponses ==
    {<<"RATING:", " ", "A">>, <<"rating:", "u">>, <<"B">>}

\* return 'Overall assessment summary unavailable.'
SummaryUnavailable == "Overall assessment summary unavailable."

\* response.choices[0].message.content.trim() of the summary call
SummaryTexts == {"Well documented; add safety netting."}

NoResult ==
    [criteriaAssessments |-> <<>>, scoring |-> NoScore,
     overallSummary |-> "none", recommendations |-> <<>>]

NoDocument ==
    [type |-> "none", ragRating |-> "none", score |-> 0,
     assessment |-> NoResult]

\* the value takes the next free place of the array, in arrival order
SettleOnArrival(assessments, id, result) ==
    LET free == {s \in DOMAIN assessments :
                    assessments[s].rating = "pending"}
        slot == CHOOSE s \in free : \A o \in free : s <= o
    IN  [assessments EXCEPT ![slot] = result]

\* Promise.all keeps the value of a promise at the index of the promise
Settle(assessments, id, result) == [assessments EXCEPT ![id] = result]

\* Promise.any in place of Promise.all: one judgment has returned
SomeCriterionSettled(calls, answered) == answered # {}

\* await Promise.all(assessmentPromises): every judgment has returned
CriteriaComplete(calls, answered) == answered = calls

\* const ratings = criteriaAssessments.map(a => a.rating)
RatingsOf(assessments) ==
    [i \in 1..Len(assessments) |-> assessments[i].rating]

\* the summary error leaves generateOverallSummary
SummaryFailureThrown == FALSE

\* catch (error) { ...; return 'Overall assessment summary unavailable.' }
SummaryFailureCaught == TRUE

\* the result object of assessConsultation
ResultOf(assessments, scoreData, overallSummary) ==
    [criteriaAssessments |-> assessments,
     scoring |-> scoreData,
     overallSummary |-> overallSummary,
     recommendations |-> <<>>]

\* the document saveAssessmentsToDatabase builds of the record
DocumentOf(assessment) ==
    [type |-> "gp_consultation_assessment",
     ragRating |-> assessment.scoring.ragRating,
     score |-> assessment.scoring.percentage,
     assessment |-> assessment]

InitAssess ==
    /\ ServerIdle
    /\ recordText \in AssessedTexts
    /\ criteriaAssessments = <<>>
    /\ judgmentCalls = {}
    /\ unit = [fn |-> "assessConsultation",
               pc |-> "called",
               answered |-> {},
               lastSettled |-> 0,
               ratings |-> <<>>,
               scoreData |-> NoScore,
               summaryFailed |-> FALSE,
               result |-> NoResult,
               document |-> NoDocument]

\* assessConsultation maps the criteria and awaits Promise.all
MapCriteria ==
    /\ unit.fn = "assessConsultation"
    /\ AssessConsultation

\* the judgment call of a criterion answers: assessSingleCriterion returns
\* its result; when that completes Promise.all, assessConsultation takes
\* the ratings, scores them and requests the overall summary
JudgmentAnswered ==
    /\ unit.fn = "assessConsultation"
    /\ unit.pc = "called"
    /\ \E id \in judgmentCalls \ unit.answered,
          aiResponse \in JudgmentResponses :
           LET result == [criterionId |-> id,
                          rating |-> extractRating(aiResponse),
                          judged |-> TRUE]
               settled == Settle(criteriaAssessments, id, result)
               answered == unit.answered \cup {id}
           IN  /\ criteriaAssessments' = settled
               /\ unit' =
                    IF CriteriaComplete(judgmentCalls, answered)
                    THEN [unit EXCEPT
                             !.answered = answered,
                             !.lastSettled = id,
                             !.ratings = RatingsOf(settled),
                             !.scoreData = calculateScore(RatingsOf(settled)),
                             !.pc = "summarising"]
                    ELSE [unit EXCEPT !.answered = answered,
                                      !.lastSettled = id]
    /\ UNCHANGED <<serverVars, recordText, judgmentCalls>>

\* the judgment call of a criterion fails: assessSingleCriterion rethrows,
\* Promise.all rejects and assessConsultation rethrows from its catch; what
\* the other judgments answer afterwards reaches nobody
JudgmentFailed ==
    /\ unit.fn = "assessConsultation"
    /\ unit.pc = "called"
    /\ \E id \in judgmentCalls \ unit.answered :
           unit' = [unit EXCEPT !.pc = "threw", !.lastSettled = id]
    /\ UNCHANGED <<serverVars, recordVars>>

\* the summary call answers: the result is built and returned
SummaryAnswered ==
    /\ unit.fn = "assessConsultation"
    /\ unit.pc = "summarising"
    /\ \E summary \in SummaryTexts :
           unit' = [unit EXCEPT
                       !.pc = "returned",
                       !.result = ResultOf(criteriaAssessments,
                                           unit.scoreData, summary)]
    /\ UNCHANGED <<serverVars, recordVars>>

\* the summary call fails
SummaryFailed ==
    /\ unit.fn = "assessConsultation"
    /\ unit.pc = "summarising"
    /\ unit' = IF SummaryFailureCaught
               THEN [unit EXCEPT
                        !.pc = "returned",
                        !.summaryFailed = TRUE,
                        !.result = ResultOf(criteriaAssessments,
                                            unit.scoreData,
                                            SummaryUnavailable)]
               ELSE [unit EXCEPT !.pc = "threw", !.summaryFailed = TRUE]
    /\ UNCHANGED <<serverVars, recordVars>>

\* the review saves the returned assessment and insertMany resolves
AssessmentSaved ==
    /\ unit.fn = "assessConsultation"
    /\ unit.pc = "returned"
    /\ unit' = [unit EXCEPT !.pc = "saved",
                            !.document = DocumentOf(unit.result)]
    /\ UNCHANGED <<serverVars, recordVars>>

\* insertMany rejects: nothing is stored
AssessmentNotSaved ==
    /\ unit.fn = "assessConsultation"
    /\ unit.pc = "returned"
    /\ unit' = [unit EXCEPT !.pc = "unsaved"]
    /\ UNCHANGED <<serverVars, recordVars>>

NextAssess ==
    \/ MapCriteria
    \/ JudgmentAnswered
    \/ JudgmentFailed
    \/ SummaryAnswered
    \/ SummaryFailed
    \/ AssessmentSaved
    \/ AssessmentNotSaved

SpecAssess == InitAssess /\ [][NextAssess]_vars


\* the assessment of the record has been returned
Assessed ==
    /\ unit.fn = "assessConsultation"
    /\ unit.pc \in {"returned", "saved", "unsaved"}

\* calculateScore has been called for the record
ScoringStarted == unit.fn = "assessConsultation" /\ unit.scoreData # NoScore

\* one assessment per criterion id 1..12, in ascending id order
InIdOrder(assessments) ==
    /\ Len(assessments) = 12
    /\ \A i \in 1..Len(assessments) : assessments[i].criterionId = i

\* C27: whatever order the concurrent criterion judgments of a record
\* complete in, its assessments are held one per criterion id 1..12 in
\* ascending id order; scoring starts only after all 12 have completed, the
\* ratings fed to calculateScore are those 12 in that order, and the
\* returned result holds those 12 assessments and that score.
C27_CriteriaInIdOrder ==
    /\ (unit.fn = "assessConsultation" /\ Classified) =>
           InIdOrder(criteriaAssessments)
    /\ ScoringStarted =>
           /\ unit.answered = judgmentCalls
           /\ \A i \in 1..12 : criteriaAssessments[i].rating \in Ratings
           /\ unit.ratings =
                  [i \in 1..12 |-> criteriaAssessments[i].rating]
           /\ unit.scoreData = calculateScore(unit.ratings)
    /\ Assessed =>
           /\ InIdOrder(unit.result.criteriaAssessments)
           /\ \A i \in 1..12 :
                  unit.result.criteriaAssessments[i].rating \in Ratings
           /\ unit.result.scoring =
                  calculateScore(
                      [i \in 1..12 |->
                          unit.result.criteriaAssessments[i].rating])

\* a coded telephone consultation has been assessed; of its six judgments
\* the one of criterion 1 completed last and the one of criterion 11 was
\* rated Unacceptable
C27_Witness ==
    /\ Assessed
    /\ recordText = <<"Problem", " ", "asthma", "Telephone">>
    /\ judgmentCalls = {1, 3, 4, 6, 10, 11}
    /\ unit.lastSettled = 1
    /\ unit.result.criteriaAssessments[11].rating = "unacceptable"
    /\ unit.result.criteriaAssessments[1].rating = "acceptable"
    /\ unit.result.scoring.totalRelevant = 7


\* C28: a failure of the overall-summary call, which is issued after the
\* 12 criterion assessments and the score are computed, does not abort: the
\* assessment is returned, and saved when the insert resolves, with the
\* fixed fallback summary text and with the criterion ratings and the score
\* it had when the summary was requested; a failed criterion judgment makes
\* the assessment throw and returns nothing.
C28_SummaryFailureKeepsAssessment ==
    /\ (unit.fn = "assessConsultation" /\ unit.summaryFailed) =>
           /\ Assessed
           /\ unit.result.overallSummary = SummaryUnavailable
           /\ unit.result.criteriaAssessments = criteriaAssessments
           /\ RatingsOf(unit.result.criteriaAssessments) = unit.ratings
           /\ unit.result.scoring = unit.scoreData
           /\ unit.result.scoring = calculateScore(unit.ratings)
           /\ unit.pc = "saved" =>
                  /\ unit.document.assessment = unit.result
                  /\ unit.document.score = unit.scoreData.percentage
                  /\ unit.document.ragRating = unit.scoreData.ragRating
    /\ (unit.fn = "assessConsultation" /\ unit.pc = "threw") =>
           /\ ~unit.summaryFailed
           /\ unit.answered # judgmentCalls
           /\ unit.result = NoResult
           /\ unit.document = NoDocument
    /\ (unit.fn = "assessConsultation" /\ unit.pc = "summarising") =>
           ScoringStarted

\* the summary call failed for a coded telephone consultation with one
\* Unacceptable rating, and the assessment has been saved with the fallback
\* text
C28_Witness ==
    /\ unit.fn = "assessConsultation"
    /\ unit.summaryFailed
    /\ unit.pc = "saved"
    /\ recordText = <<"Problem", " ", "asthma", "Telephone">>
    /\ unit.document.assessment.overallSummary = SummaryUnavailable
    /\ unit.document.assessment.criteriaAssessments[3].rating
           = "unacceptable"
    /\ unit.document.assessment.scoring.unacceptable = 1
====
